---- MODULE Spec2Model ----
(***************************************************************************)
(* State-machine model of the optimization-metaheuristics crate: the two   *)
(* configuration constructors, SimulatedAnnealingAlgorithm::execute and    *)
(* GeneticAlgorithm::execute over the Population wrapper, for a generic    *)
(* solution type (any implementor of the capability traits).               *)
(*                                                                         *)
(* f64 values are tagged records: a finite value n stands for n/Scale      *)
(* (fixed point), next to NaN and the two infinities, with the IEEE-754    *)
(* rules for comparison and arithmetic on the special values.  Signed      *)
(* zeros and exponent underflow are not represented.  usize is an          *)
(* unsigned integer of UsizeBits bits; an overflowing operation panics in  *)
(* a build with overflow checks and wraps in a build without; which build  *)
(* runs is fixed by the first operation that overflows.                    *)
(***************************************************************************)
EXTENDS Integers, Sequences, FiniteSets, TLC

\* ------------------------------------------------------------------ bounds
\* Fixed-point denominator of the finite f64 values.
Scale == 4
\* Width of usize in bits.
UsizeBits == 3
\* Largest number_generations / max_iterations a run is started with.
MaxGen == 2
MaxIter == 2
\* Largest population_size a run is started with.
MaxPop == 2
\* Largest initial population handed to GeneticAlgorithm::execute.
MaxInit == 2
\* Largest number of children one generate_children_with call returns.
MaxChildren == 2
\* The uniform draw r of rng.random() is 0.0 (draw 0) or exp(-d/Scale)
\* for a draw d in 1..MaxDraw, so that exp(q) > r is q > -d/Scale.
MaxDraw == 2
\* Items of the knapsack problem (KnapsackProblem::number_items).
NumItems == 3
\* Calls made on KnapsackSolution values in one behaviour.
MaxCalls == 3

\* ------------------------------------------------------------------- usize
UsizeMod == 2 ^ UsizeBits
UsizeMax == UsizeMod - 1

\* a * b on usize: the wrapped value and whether it overflowed.
UsizeMul(a, b) == [val |-> (a * b) % UsizeMod, overflow |-> a * b > UsizeMax]
UsizeAdd(a, b) == [val |-> (a + b) % UsizeMod, overflow |-> a + b > UsizeMax]

\* --------------------------------------------------------------------- f64
F(n) == [k |-> "num", v |-> n]
NaN == [k |-> "nan", v |-> 0]
PInf == [k |-> "pinf", v |-> 0]
NInf == [k |-> "ninf", v |-> 0]

IsNaN(a) == a.k = "nan"

\* a < b, false when either side is NaN.
FLt(a, b) ==
    /\ ~IsNaN(a)
    /\ ~IsNaN(b)
    /\ CASE a.k = "ninf" -> b.k # "ninf"
         [] a.k = "pinf" -> FALSE
         [] OTHER -> b.k = "pinf" \/ (b.k = "num" /\ a.v < b.v)

FEq(a, b) == ~IsNaN(a) /\ ~IsNaN(b) /\ a = b
FLe(a, b) == FLt(a, b) \/ FEq(a, b)
FGt(a, b) == FLt(b, a)
FGe(a, b) == FLe(b, a)

\* The sign of a non-NaN value: -1, 0 or 1.
FSign(a) ==
    CASE a.k = "pinf" -> 1
      [] a.k = "ninf" -> -1
      [] OTHER -> IF a.v > 0 THEN 1 ELSE IF a.v < 0 THEN -1 ELSE 0

FInf(sign) == IF sign > 0 THEN PInf ELSE NInf

Abs(n) == IF n < 0 THEN -n ELSE n

FNeg(a) ==
    CASE a.k = "nan" -> NaN
      [] a.k = "pinf" -> NInf
      [] a.k = "ninf" -> PInf
      [] OTHER -> F(-a.v)

\* a + b; inf + (-inf) is NaN.
FAdd(a, b) ==
    CASE IsNaN(a) \/ IsNaN(b) -> NaN
      [] a.k = "num" /\ b.k = "num" -> F(a.v + b.v)
      [] a.k = "num" -> b
      [] b.k = "num" -> a
      [] OTHER -> IF a.k = b.k THEN a ELSE NaN

\* a - b; inf - inf is NaN.
FSub(a, b) ==
    CASE IsNaN(a) \/ IsNaN(b) -> NaN
      [] a.k = "num" /\ b.k = "num" -> F(a.v - b.v)
      [] a.k = "num" -> FNeg(b)
      [] b.k = "num" -> a
      [] OTHER -> IF a.k = b.k THEN NaN ELSE a

\* Round-to-nearest of p/q (q > 0, p >= 0); a nonzero quotient never
\* rounds to zero (no underflow within the modelled range).
RoundDiv(p, q) ==
    LET r == (2 * p + q) \div (2 * q)
    IN  IF p > 0 /\ r = 0 THEN 1 ELSE r

\* a * b; inf * 0 is NaN.
FMul(a, b) ==
    CASE IsNaN(a) \/ IsNaN(b) -> NaN
      [] a.k = "num" /\ b.k = "num" ->
            F(FSign(a) * FSign(b) * RoundDiv(Abs(a.v) * Abs(b.v), Scale))
      [] OTHER ->
            IF FSign(a) * FSign(b) = 0 THEN NaN ELSE FInf(FSign(a) * FSign(b))

\* a / b; 0/0 and inf/inf are NaN, x/0 is an infinity of x's sign.
FDiv(a, b) ==
    CASE IsNaN(a) \/ IsNaN(b) -> NaN
      [] a.k = "num" /\ b.k = "num" ->
            IF b.v = 0
            THEN IF a.v = 0 THEN NaN ELSE FInf(FSign(a))
            ELSE F(FSign(a) * FSign(b) * RoundDiv(Abs(a.v) * Scale, Abs(b.v)))
      [] a.k = "num" -> F(0)
      [] b.k = "num" -> FInf(FSign(a) * (IF FSign(b) < 0 THEN -1 ELSE 1))
      [] OTHER -> NaN

\* f64::max: the other operand when one is NaN.
FMax(a, b) ==
    CASE IsNaN(a) -> b
      [] IsNaN(b) -> a
      [] OTHER -> IF FLt(a, b) THEN b ELSE a

\* exp(q) > r for the draw d standing for r (see MaxDraw): exp(NaN) is NaN
\* and compares false, exp(-inf) is 0.0 and never exceeds r >= 0.
ExpExceedsDraw(q, d) ==
    CASE q.k = "nan" -> FALSE
      [] q.k = "pinf" -> TRUE
      [] q.k = "ninf" -> FALSE
      [] OTHER -> d = 0 \/ q.v > -d

\* (0.0..=1.0).contains(&x)
InUnitRange(x) == FLe(F(0), x) /\ FLe(x, F(Scale))

\* Option<f64>
None == [some |-> FALSE, val |-> NaN]
Some(x) == [some |-> TRUE, val |-> x]

\* ------------------------------------------------------------------ errors
ConfigurationError(msg) == [tag |-> "Err", error |-> "ConfigurationError", msg |-> msg]
ExecutionError(msg) == [tag |-> "Err", error |-> "ExecutionError", msg |-> msg]
Panic(msg) == [tag |-> "Panic", msg |-> msg]
NoResult == [tag |-> "None"]

\* ------------------------------------------------------------------ config
GaArgs(g, p, m, n, t) ==
    [number_generations |-> g, population_size |-> p, mutation_rate |-> m,
     number_pairs_parents |-> n, stop_threshold |-> t]

\* GeneticAlgorithmConfig::new; checks says whether the build panics on
\* integer overflow.
GeneticAlgorithmConfigNew(a, checks) ==
    IF ~InUnitRange(a.mutation_rate)
    THEN ConfigurationError("mutation rate")
    ELSE LET twice == UsizeMul(2, a.number_pairs_parents)
         IN  IF twice.overflow /\ checks = "on"
             THEN Panic("arithmetic overflow")
             ELSE IF twice.val > a.population_size
                  THEN ConfigurationError("population size")
                  ELSE [tag |-> "Ok", cfg |-> a]

SaArgs(i, t0, tmin, c, t) ==
    [max_iterations |-> i, initial_temperature |-> t0,
     minimal_temperature |-> tmin, cooling_rate |-> c, stop_threshold |-> t]

\* SimulatedAnnealingConfig::new
SimulatedAnnealingConfigNew(a) ==
    IF \/ FLt(a.initial_temperature, F(0))
       \/ FLt(a.minimal_temperature, F(0))
       \/ FLt(a.initial_temperature, a.minimal_temperature)
    THEN ConfigurationError("temperature")
    ELSE IF ~InUnitRange(a.cooling_rate)
         THEN ConfigurationError("cooling rate")
         ELSE [tag |-> "Ok", cfg |-> a]

\* --------------------------------------------------------------- solutions
\* A solution of the generic type T: its objective() and the rest of its
\* internal state (tag), which the algorithms never read.  There is one
\* solution per objective, and a second one of objective -1/Scale.
ObjVals == {NaN, F(-2), F(-1), F(0)}
Sol(o, t) == [obj |-> o, tag |-> t]
Solutions == {Sol(o, 0) : o \in ObjVals} \cup {Sol(F(-1), 1)}
NoSolution == Sol(NaN, -1)
\* The solutions a GA run is fed (initial elements, children, mutants).
GaSolutions == {s \in Solutions : s.tag = 0}

\* ProblemSolution::objective
objective(s) == s.obj

\* The objectives of the individuals of a Vec<T>.
Objectives(s) == {objective(s[i]) : i \in 1 .. Len(s)}

\* The least of a set of objectives, as a set of at most one element: NaN
\* if NaN is in the set (the objectives are then not mutually comparable).
Extremes(S) == IF NaN \in S THEN {NaN} ELSE {o \in S : \A q \in S : FLe(o, q)}

\* Result<T, ProblemError> of a capability call.
CapErr == [tag |-> "Err"]
CapOk(v) == [tag |-> "Ok", val |-> v]

\* ------------------------------------------------------------ input ranges
TempVals == {NaN, PInf, F(-1), F(0), F(2), F(Scale)}
RateVals == {NaN, F(-1), F(0), F(Scale \div 2), F(Scale), F(Scale + 1)}
MutationRateVals == {NaN, F(-1), F(0), F(Scale), F(Scale + 1)}
ThresholdVals == {None, Some(F(-1))}
Draws == 0 .. MaxDraw

GaArgSet ==
    { GaArgs(g, p, m, n, t) :
        g \in 0 .. MaxGen, p \in 0 .. MaxPop, m \in MutationRateVals,
        n \in 0 .. UsizeMax, t \in ThresholdVals }

SaArgSet ==
    { SaArgs(i, t0, tmin, c, t) :
        i \in 0 .. MaxIter, t0 \in TempVals, tmin \in TempVals,
        c \in RateVals, t \in ThresholdVals }

\* ------------------------------------------------------------------- state
VARIABLES
    pc,                \* where the program is
    overflow_checks,   \* whether the build panics on integer overflow: "on",
                       \* "off", or "unknown" until an operation overflows
    config,            \* the constructor call made and what it returned
    current_solution, best_solution, iteration, temperature,   \* SA locals
    new_solution, draw,          \* the neighbor and the draw of the last pass
    elements, generation, offsprings, idx,                     \* GA locals
    result,            \* what execute returned (or its panic)
    calls,             \* capability calls made so far (history)
    failures,          \* capability calls that returned Err (history)
    seen,              \* objectives of the solutions that were current:
                       \* the initial one, then each accepted neighbor (history)
    best_hist,         \* best objective at the end of each pass (history)
    pool,              \* the least objective (NaN if one occurred) among the
                       \* individuals a GA run was given: the initial ones and
                       \* every mutated offspring (history)
    call,              \* the last call made on a Population or a
                       \* KnapsackSolution, with its receiver before the call
    problem,           \* the KnapsackProblem
    solution,          \* the KnapsackSolution at hand
    children,          \* what the last generate_children_with returned
    twin_children,     \* what the same call returns in a second run from
                       \* the same state with the same draws
    current_items, number_items_in_set,     \* new_random locals
    drawn_index        \* random_index of the last pass of new_random's loop
                       \* (-1 before the first pass)

saVars == <<current_solution, best_solution, iteration, temperature, new_solution, draw>>
gaVars == <<elements, generation, offsprings, idx>>
histVars == <<calls, failures, seen, best_hist>>
ksVars == <<problem, solution, children, twin_children, current_items,
            number_items_in_set, drawn_index>>
apiVars == <<call, ksVars>>
vars == <<pc, overflow_checks, config, saVars, gaVars, result, histVars, pool, apiVars>>

\* Before any call on a Population or a KnapsackSolution, and before a
\* KnapsackProblem and a KnapsackSolution exist.
NoCall == [name |-> "none"]
NoProblem == [number_items |-> 0]
NoKnapsackSolution == [items |-> {}, value |-> NaN, weight |-> NaN]

Init ==
    /\ pc = "idle"
    /\ overflow_checks = "unknown"
    /\ config = [kind |-> "none"]
    /\ current_solution = NoSolution
    /\ best_solution = NoSolution
    /\ iteration = 0
    /\ temperature = NaN
    /\ new_solution = NoSolution
    /\ draw = 0
    /\ elements = <<>>
    /\ generation = 0
    /\ offsprings = <<>>
    /\ idx = 0
    /\ result = NoResult
    /\ calls = 0
    /\ failures = 0
    /\ seen = <<>>
    /\ best_hist = <<>>
    /\ pool = {}
    /\ call = NoCall
    /\ problem = NoProblem
    /\ solution = NoKnapsackSolution
    /\ children = <<>>
    /\ twin_children = <<>>
    /\ current_items = {}
    /\ number_items_in_set = 0
    /\ drawn_index = -1

\* --------------------------------------------------------- the constructors
\* The builds that can be running, and the build once an operation
\* overflowed (overflowed) under the choice checks.
Builds == IF overflow_checks = "unknown" THEN {"on", "off"} ELSE {overflow_checks}
BuildAfter(overflowed, checks) == IF overflowed THEN checks ELSE overflow_checks

GaConfigNew ==
    /\ pc = "idle"
    /\ \E a \in GaArgSet, checks \in Builds :
          /\ config' = [kind |-> "ga", args |-> a,
                        res |-> GeneticAlgorithmConfigNew(a, checks)]
          /\ overflow_checks' =
                BuildAfter(InUnitRange(a.mutation_rate)
                             /\ UsizeMul(2, a.number_pairs_parents).overflow, checks)
    /\ pc' = "configured"
    /\ UNCHANGED <<saVars, gaVars, result, histVars>>
    /\ UNCHANGED <<pool, apiVars>>

SaConfigNew ==
    /\ pc = "idle"
    /\ \E a \in SaArgSet :
          config' = [kind |-> "sa", args |-> a,
                     res |-> SimulatedAnnealingConfigNew(a)]
    /\ pc' = "configured"
    /\ UNCHANGED <<overflow_checks, saVars, gaVars, result, histVars>>
    /\ UNCHANGED <<pool, apiVars>>

NextConfig == GaConfigNew \/ SaConfigNew
SpecConfig == Init /\ [][NextConfig]_vars

\* --------------------------------------------------------------- SA: execute
Cfg == config.res.cfg

\* SimulatedAnnealingAlgorithm::cooldown
cooldown(t) == FMul(t, Cfg.cooling_rate)

\* A variant of the acceptance test that accepts every neighbor.
AcceptsAlways(neighbor, current, temp, d) == TRUE

\* The acceptance test of one iteration:
\* (-delta_objective / temperature).exp() > rng.random()
Accepts(neighbor, current, temp, d) ==
    LET delta_objective == FSub(objective(neighbor), objective(current))
    IN  ExpExceedsDraw(FDiv(FNeg(delta_objective), temp), d)

\* A variant of the early stopping check that never stops the run.
BelowThresholdNever(best) == FALSE

\* A variant of the early stopping check that also stops on equality.
BelowThresholdOrEqual(best) ==
    Cfg.stop_threshold.some /\ FLe(objective(best), Cfg.stop_threshold.val)

\* The early stopping check on the best objective.
BelowThreshold(best) ==
    Cfg.stop_threshold.some /\ FLt(objective(best), Cfg.stop_threshold.val)

\* What current_solution.new_solution(rng) may return.
NewSolutionResults == {CapErr} \cup {CapOk(s) : s \in Solutions}

\* A variant that records every accepted neighbor as the best.
UpdateBestAlways(accepted, current, best) ==
    IF accepted THEN current ELSE best

\* best_solution after an iteration whose neighbor was accepted or not.
UpdateBest(accepted, current, best) ==
    IF accepted /\ FLt(objective(current), objective(best)) THEN current ELSE best

\* execute() up to the loop: the locals are initialised.
SaExecute ==
    /\ pc = "configured"
    /\ config.kind = "sa"
    /\ config.res.tag = "Ok"
    /\ \E initial_solution \in Solutions :
          /\ current_solution' = initial_solution
          /\ best_solution' = initial_solution
          /\ seen' = <<objective(initial_solution)>>
    /\ iteration' = 0
    /\ temperature' = Cfg.initial_temperature
    /\ pc' = "sa_loop"
    /\ UNCHANGED <<overflow_checks, config, new_solution, draw, gaVars, result, calls,
                   failures, best_hist>>
    /\ UNCHANGED <<pool, apiVars>>

\* A variant that swallows the error and lets the loop try again.
SaNewSolutionFailedRetry ==
    /\ failures' = failures + 1
    /\ UNCHANGED <<result, pc, saVars, seen, best_hist>>

\* new_solution(rng) returned Err: map_err and `?` leave execute.
SaNewSolutionFailed ==
    /\ result' = ExecutionError("could not generate new solution.")
    /\ failures' = failures + 1
    /\ pc' = "done"
    /\ UNCHANGED <<saVars, seen, best_hist>>

\* One pass of the while loop.
SaIteration ==
    /\ pc = "sa_loop"
    /\ iteration < Cfg.max_iterations
    /\ calls' = calls + 1
    /\ \E r \in NewSolutionResults :
          IF r.tag = "Err"
          THEN SaNewSolutionFailed
          ELSE \E d \in Draws :
               LET accepted == Accepts(r.val, current_solution, temperature, d)
                   current == IF accepted THEN r.val ELSE current_solution
                   best == UpdateBest(accepted, current, best_solution)
               IN  /\ new_solution' = r.val
                   /\ draw' = d
                   /\ current_solution' = current
                   /\ best_solution' = best
                   /\ temperature' = FMax(cooldown(temperature), Cfg.minimal_temperature)
                   /\ iteration' = iteration + 1
                   /\ seen' = IF accepted THEN Append(seen, objective(r.val)) ELSE seen
                   /\ best_hist' = Append(best_hist, objective(best))
                   /\ pc' = IF BelowThreshold(best) THEN "sa_exit" ELSE "sa_loop"
                   /\ UNCHANGED <<result, failures>>
    /\ UNCHANGED <<overflow_checks, config, gaVars>>
    /\ UNCHANGED <<pool, apiVars>>

\* A variant of the return that reports the budget as the count.
SaReturnBudget ==
    /\ \/ pc = "sa_exit"
       \/ pc = "sa_loop" /\ ~(iteration < Cfg.max_iterations)
    /\ result' = [tag |-> "Ok", solution |-> best_solution, number_iterations |-> Cfg.max_iterations]
    /\ pc' = "done"
    /\ UNCHANGED <<overflow_checks, config, saVars, gaVars, histVars>>
    /\ UNCHANGED <<pool, apiVars>>

\* The loop is left (bound reached or break): the result is built.
SaReturn ==
    /\ \/ pc = "sa_exit"
       \/ pc = "sa_loop" /\ ~(iteration < Cfg.max_iterations)
    /\ result' = [tag |-> "Ok", solution |-> best_solution, number_iterations |-> iteration]
    /\ pc' = "done"
    /\ UNCHANGED <<overflow_checks, config, saVars, gaVars, histVars>>
    /\ UNCHANGED <<pool, apiVars>>

NextSA == SaConfigNew \/ SaExecute \/ SaIteration \/ SaReturn
SpecSA == Init /\ [][NextSA]_vars

\* -------------------------------------------------------------- Population
\* PartialOrd of a solution (by objective): a.partial_cmp(b) is Some(Less).
IsLess(a, b) == FLt(objective(a), objective(b))

\* One insertion of slice::sort_by on a short slice (a stable insertion
\* sort): x moves left past every element it is less than, and stops at the
\* first one it is not less than (incomparable counts as Equal).
RECURSIVE InsertTail(_, _)
InsertTail(s, x) ==
    IF s = <<>> THEN <<x>>
    ELSE IF IsLess(x, s[Len(s)])
         THEN Append(InsertTail(SubSeq(s, 1, Len(s) - 1), x), s[Len(s)])
         ELSE Append(s, x)

RECURSIVE SortPrefix(_, _)
SortPrefix(s, n) ==
    IF n = 0 THEN <<>> ELSE InsertTail(SortPrefix(s, n - 1), s[n])

\* A variant of sort that leaves the elements where they are.
sortNone(s) == s

\* Population::sort
sort(s) == SortPrefix(s, Len(s))

\* A variant of add_individuals that replaces the elements by the individuals.
add_individualsOnly(s, individuals) == individuals

\* Population::add_individuals
add_individuals(s, individuals) == s \o individuals

\* A variant of truncate that keeps the last size elements.
truncateTail(s, size) ==
    IF Len(s) > size THEN SubSeq(s, Len(s) - size + 1, Len(s)) ELSE s

\* A variant of truncate that keeps every individual.
truncateNone(s, size) == s

\* Population::truncate
truncate(s, size) == IF Len(s) > size THEN SubSeq(s, 1, size) ELSE s

\* A variant of best_individual that returns the last element.
best_individualLast(s) ==
    IF s = <<>> THEN ExecutionError("empty population") ELSE CapOk(s[Len(s)])

\* Population::best_individual
best_individual(s) ==
    IF s = <<>> THEN ExecutionError("empty population") ELSE CapOk(s[1])

\* What generate_children_with may return: Err or up to MaxChildren children.
RECURSIVE SeqsUpTo(_, _)
SeqsUpTo(S, n) ==
    IF n = 0 THEN {<<>>}
    ELSE LET shorter == SeqsUpTo(S, n - 1)
         IN  shorter \cup {Append(q, x) : q \in {t \in shorter : Len(t) = n - 1}, x \in S}

ChildrenResults == {CapErr} \cup {CapOk(c) : c \in SeqsUpTo(GaSolutions, MaxChildren)}

\* What mutate may leave in place of the offspring, or Err.
MutateResults == {CapErr} \cup {CapOk(s) : s \in GaSolutions}

\* --------------------------------------------------------------- GA: execute
\* The capacity computation of execute, population_size + 2 *
\* number_pairs_parents, leaves the range of usize for the config a.
CapacityOverflows(a) ==
    LET twice == UsizeMul(2, a.number_pairs_parents)
    IN  twice.overflow \/ UsizeAdd(a.population_size, twice.val).overflow

\* execute() up to the loop: capacity, add_individuals, sort.
GaExecute ==
    /\ pc = "configured"
    /\ config.kind = "ga"
    /\ config.res.tag = "Ok"
    /\ \E initial_elements \in SeqsUpTo(GaSolutions, MaxInit), checks \in Builds :
          LET twice == UsizeMul(2, Cfg.number_pairs_parents)
              capacity == UsizeAdd(Cfg.population_size, twice.val)
              overflowed == twice.overflow \/ capacity.overflow
          IN  /\ overflow_checks' = BuildAfter(overflowed, checks)
              /\ pool' = Extremes(Objectives(initial_elements))
              /\ IF overflowed /\ checks = "on"
                 THEN /\ result' = Panic("arithmetic overflow")
                      /\ pc' = "done"
                      /\ UNCHANGED elements
                 ELSE /\ elements' = sort(add_individuals(<<>>, initial_elements))
                      /\ pc' = "ga_loop"
                      /\ UNCHANGED result
    /\ generation' = 0
    /\ UNCHANGED <<config, saVars, offsprings, idx, histVars>>
    /\ UNCHANGED apiVars

\* The loop condition holds: generate_offspring starts.
GaGeneration ==
    /\ pc = "ga_loop"
    /\ generation < Cfg.number_generations
    /\ offsprings' = <<>>
    /\ idx' = 0
    /\ pc' = "ga_cross"
    /\ UNCHANGED <<overflow_checks, config, saVars, elements, generation, result, histVars>>
    /\ UNCHANGED <<pool, apiVars>>

\* generate_offspring, pair idx: elements[2*idx] mates with elements[2*idx+1].
GaCrossover ==
    /\ pc = "ga_cross"
    /\ idx < Cfg.number_pairs_parents
    /\ \E checks \in Builds :
          LET first == UsizeMul(2, idx)
              second == UsizeAdd(first.val, 1)
              overflowed == first.overflow \/ second.overflow
              out_of_bounds == first.val >= Len(elements) \/ second.val >= Len(elements)
          IN  /\ overflow_checks' = BuildAfter(overflowed, checks)
              /\ IF overflowed /\ checks = "on"
                 THEN /\ result' = Panic("arithmetic overflow")
                      /\ pc' = "done"
                      /\ UNCHANGED <<offsprings, idx, calls, failures, call>>
                 ELSE IF out_of_bounds
                      THEN /\ result' = Panic("index out of bounds")
                           /\ pc' = "done"
                           /\ UNCHANGED <<offsprings, idx, calls, failures, call>>
                      ELSE /\ calls' = calls + 1
                           /\ call' = [name |-> "generate_children_with",
                                       parents |-> <<first.val, second.val>>]
                           /\ \E r \in ChildrenResults :
                                 IF r.tag = "Err"
                                 THEN /\ result' = ExecutionError("could not generate offsprings")
                                      /\ failures' = failures + 1
                                      /\ pc' = "done"
                                      /\ UNCHANGED <<offsprings, idx>>
                                 ELSE /\ offsprings' = offsprings \o r.val
                                      /\ idx' = idx + 1
                                      /\ UNCHANGED <<result, failures, pc>>
    /\ UNCHANGED <<config, saVars, elements, generation, seen, best_hist>>
    /\ UNCHANGED <<pool, ksVars>>

\* generate_offspring returns the flattened offspring; the mutation loop starts.
GaCollect ==
    /\ pc = "ga_cross"
    /\ ~(idx < Cfg.number_pairs_parents)
    /\ idx' = 0
    /\ pc' = "ga_mutate"
    /\ UNCHANGED <<overflow_checks, config, saVars, elements, generation, offsprings,
                   result, histVars>>
    /\ UNCHANGED <<pool, apiVars>>

\* One pass of the mutation loop: offspring idx is mutated in place.
GaMutate ==
    /\ pc = "ga_mutate"
    /\ idx < Len(offsprings)
    /\ calls' = calls + 1
    /\ call' = [name |-> "mutate", mutation_rate |-> Cfg.mutation_rate]
    /\ \E r \in MutateResults :
          IF r.tag = "Err"
          THEN /\ result' = ExecutionError("could not mutate offspring")
               /\ failures' = failures + 1
               /\ pc' = "done"
               /\ UNCHANGED <<offsprings, idx>>
          ELSE /\ offsprings' = [offsprings EXCEPT ![idx + 1] = r.val]
               /\ idx' = idx + 1
               /\ UNCHANGED <<result, failures, pc>>
    /\ UNCHANGED <<overflow_checks, config, saVars, elements, generation, seen, best_hist>>
    /\ UNCHANGED <<pool, ksVars>>

\* The rest of the pass: add the offspring, sort, truncate, count the
\* generation, and the early stopping check.
GaSurvive ==
    /\ pc = "ga_mutate"
    /\ ~(idx < Len(offsprings))
    /\ LET survivors == truncate(sort(add_individuals(elements, offsprings)),
                                 Cfg.population_size)
           best == best_individual(survivors)
       IN  /\ elements' = survivors
           /\ generation' = generation + 1
           /\ best_hist' = Append(best_hist, IF best.tag = "Ok" THEN objective(best.val) ELSE NaN)
           /\ pool' = Extremes(pool \cup Objectives(offsprings))
           /\ IF Cfg.stop_threshold.some /\ best.tag = "Err"
              THEN result' = best /\ pc' = "done"
              ELSE /\ UNCHANGED result
                   /\ pc' = IF Cfg.stop_threshold.some /\ BelowThreshold(best.val)
                            THEN "ga_exit"
                            ELSE "ga_loop"
    /\ UNCHANGED <<overflow_checks, config, saVars, offsprings, idx, calls, failures, seen>>
    /\ UNCHANGED apiVars

\* The loop is left (bound reached or break): the result is built.
GaReturn ==
    /\ \/ pc = "ga_exit"
       \/ pc = "ga_loop" /\ ~(generation < Cfg.number_generations)
    /\ LET best == best_individual(elements)
       IN  result' = IF best.tag = "Err"
                     THEN best
                     ELSE [tag |-> "Ok", solution |-> best.val,
                           number_generations |-> generation]
    /\ pc' = "done"
    /\ UNCHANGED <<overflow_checks, config, saVars, gaVars, histVars>>
    /\ UNCHANGED <<pool, apiVars>>

NextGA ==
    \/ GaConfigNew \/ GaExecute \/ GaGeneration \/ GaCrossover \/ GaCollect
    \/ GaMutate \/ GaSurvive \/ GaReturn
SpecGA == Init /\ [][NextGA]_vars

\* ------------------------------------------- Population, called directly
\* The variables no call on a Population touches.
popFrame == <<overflow_checks, config, saVars, generation, offsprings, idx, histVars, pool,
              ksVars>>

\* Population::new(capacity)
PopNew ==
    /\ pc = "idle"
    /\ elements' = <<>>
    /\ call' = [name |-> "new", before |-> <<>>]
    /\ pc' = "population"
    /\ UNCHANGED <<popFrame, result>>

\* population.add_individuals(individuals)
PopAddIndividuals ==
    /\ pc = "population"
    /\ \E individuals \in SeqsUpTo(Solutions, MaxInit) :
          /\ Len(elements) + Len(individuals) <= MaxInit + 1
          /\ elements' = add_individuals(elements, individuals)
    /\ call' = [name |-> "add_individuals", before |-> elements]
    /\ UNCHANGED <<pc, popFrame, result>>

\* population.truncate(size)
PopTruncate ==
    /\ pc = "population"
    /\ \E size \in 0 .. MaxInit + 1 : elements' = truncate(elements, size)
    /\ call' = [name |-> "truncate", before |-> elements]
    /\ UNCHANGED <<pc, popFrame, result>>

\* population.sort()
PopSort ==
    /\ pc = "population"
    /\ elements' = sort(elements)
    /\ call' = [name |-> "sort", before |-> elements]
    /\ UNCHANGED <<pc, popFrame, result>>

\* population.best_individual()
PopBestIndividual ==
    /\ pc = "population"
    /\ result' = best_individual(elements)
    /\ call' = [name |-> "best_individual", before |-> elements]
    /\ UNCHANGED <<pc, popFrame, elements>>

NextPopulation == PopNew \/ PopAddIndividuals \/ PopTruncate \/ PopSort \/ PopBestIndividual
SpecPopulation == Init /\ [][NextPopulation]_vars

\* ---------------------------------------------------------------- knapsack
\* The item indices of the problem, and the problems: the values, and the
\* weights, are all equal or grow with the index.
Items == 0 .. NumItems - 1
KnapsackProblems ==
    { [number_items |-> NumItems, max_weight |-> F(2), all_values |-> v, all_weights |-> w] :
        v \in {[i \in Items |-> F(1)], [i \in Items |-> F(i + 1)]},
        w \in {[i \in Items |-> F(1)], [i \in Items |-> F(i + 1)]} }

\* fold(0.0, |acc, &i| acc + table[i]) over a set of item indices.
RECURSIVE SumOver(_, _)
SumOver(table, S) ==
    IF S = {} THEN F(0)
    ELSE LET i == CHOOSE x \in S : TRUE
         IN  FAdd(SumOver(table, S \ {i}), table[i])

\* KnapsackSolution::new
KnapsackSolutionNew(items) ==
    [items |-> items,
     value |-> SumOver(problem.all_values, items),
     weight |-> SumOver(problem.all_weights, items)]

\* KnapsackSolution::objective
KnapsackObjective(s) ==
    IF FGt(s.weight, problem.max_weight) THEN F(0) ELSE FNeg(s.value)

\* KnapsackSolution::new_solution with the drawn random_index.
KnapsackNewSolution(s, random_index) ==
    IF random_index \in s.items
    THEN [items |-> s.items \ {random_index},
          value |-> FSub(s.value, problem.all_values[random_index]),
          weight |-> FSub(s.weight, problem.all_weights[random_index])]
    ELSE [items |-> s.items \cup {random_index},
          value |-> FAdd(s.value, problem.all_values[random_index]),
          weight |-> FAdd(s.weight, problem.all_weights[random_index])]

\* (mutation_rate * number_items).clamp(0.0, number_items).floor() as u64
ExpectedNumberFlips(mutation_rate) ==
    CASE mutation_rate.k = "nan" -> 0
      [] mutation_rate.k = "pinf" -> NumItems
      [] mutation_rate.k = "ninf" -> 0
      [] OTHER ->
            LET floor == (mutation_rate.v * NumItems) \div Scale
            IN  IF mutation_rate.v < 0 THEN 0
                ELSE IF floor > NumItems THEN NumItems ELSE floor

\* KnapsackSolution::mutate with the sampled indices: each one is flipped;
\* value and weight are left as they were.
KnapsackMutate(s, indices) ==
    [s EXCEPT !.items = (s.items \ indices) \cup (indices \ s.items)]

\* The orders in which the elements of a set can be listed.
Orderings(S) ==
    {q \in [1 .. Cardinality(S) -> S] : \A x \in S : \E i \in DOMAIN q : q[i] = x}

\* Two of the orders in which a HashSet<usize> can iterate over its elements
\* (the order depends on the keys of its RandomState): ascending and
\* descending.  With every permutation of the shuffle, each of them lets
\* the shuffled list take every order.
RECURSIVE Ascending(_)
Ascending(S) ==
    IF S = {} THEN <<>>
    ELSE LET least == CHOOSE x \in S : \A y \in S : x <= y
         IN  <<least>> \o Ascending(S \ {least})
Descending(S) == [i \in 1 .. Cardinality(S) |-> Ascending(S)[Cardinality(S) + 1 - i]]
HashOrders(S) == {Ascending(S), Descending(S)}

\* slice::shuffle with the permutation the draws select.
Shuffle(q, perm) == [i \in DOMAIN q |-> q[perm[i]]]

\* The elements of a slice of a Vec, collected into a HashSet.
Collected(q, from, to) == {q[i] : i \in from .. to}

\* A variant of the crossover whose second half starts one element early.
GenerateChildrenWithOverlap(s, other_parent, hash_order, perm) ==
    LET all_elements == Shuffle(hash_order, perm)
        split_at == Len(all_elements) \div 2
    IN  << KnapsackSolutionNew(Collected(all_elements, 1, split_at)),
           KnapsackSolutionNew(Collected(all_elements, IF split_at = 0 THEN 1 ELSE split_at,
                                         Len(all_elements))) >>

\* KnapsackSolution::generate_children_with: the union of the parents'
\* items in the iteration order of the HashSets (hash_order), shuffled
\* with the permutation the draws select, split in two halves.
GenerateChildrenWith(s, other_parent, hash_order, perm) ==
    LET all_elements == Shuffle(hash_order, perm)
        split_at == Len(all_elements) \div 2
    IN  << KnapsackSolutionNew(Collected(all_elements, 1, split_at)),
           KnapsackSolutionNew(Collected(all_elements, split_at + 1, Len(all_elements))) >>

\* The arguments of the calls.  The other parent of a crossover holds no
\* item, every item, or the items the solution at hand does not hold.
KnapsackRates == {F(0), F(Scale \div 2), F(Scale)}
ItemSets == SUBSET Items
OtherParents(s) == {{}, Items, Items \ s.items}

\* KnapsackProblem::new
KsProblemNew ==
    /\ pc = "idle"
    /\ problem' \in KnapsackProblems
    /\ pc' = "knapsack"
    /\ UNCHANGED <<overflow_checks, config, saVars, gaVars, result, histVars, pool, call,
                   solution, children, twin_children, current_items, number_items_in_set, drawn_index>>

\* The variables no call on a KnapsackSolution touches.
ksFrame == <<overflow_checks, config, saVars, gaVars, result, failures, seen, best_hist,
             pool, problem>>

\* A further call can be made.
KsReady == pc = "knapsack" /\ calls < MaxCalls

\* KnapsackSolution::new(current_items, problem)
KsNew ==
    /\ KsReady
    /\ \E items \in ItemSets : solution' = KnapsackSolutionNew(items)
    /\ call' = [name |-> "new"]
    /\ calls' = calls + 1
    /\ UNCHANGED <<pc, ksFrame, children, twin_children, current_items, number_items_in_set, drawn_index>>

\* KnapsackSolution::new_random up to its loop: the size is the argument,
\* or drawn from 1..=number_items when the argument is None.
KsNewRandom ==
    /\ KsReady
    /\ \E is_some \in BOOLEAN, n \in 0 .. NumItems + 1, drawn \in 1 .. NumItems :
          number_items_in_set' = IF is_some THEN n ELSE drawn
    /\ current_items' = {}
    /\ drawn_index' = -1
    /\ call' = [name |-> "new_random"]
    /\ calls' = calls + 1
    /\ pc' = "new_random"
    /\ UNCHANGED <<ksFrame, solution, children, twin_children>>

\* One pass of the loop of new_random: the drawn index is inserted unless it
\* is there already.
KsNewRandomDraw(random_index) ==
    /\ pc = "new_random"
    /\ Cardinality(current_items) # number_items_in_set
    /\ drawn_index' = random_index
    /\ current_items' = current_items \cup {random_index}
    /\ UNCHANGED <<pc, ksFrame, calls, call, solution, children, twin_children,
                   number_items_in_set>>

KsNewRandomPass == \E random_index \in Items : KsNewRandomDraw(random_index)

\* The loop of new_random is left: Self::new(current_items, problem).
KsNewRandomReturn ==
    /\ pc = "new_random"
    /\ Cardinality(current_items) = number_items_in_set
    /\ solution' = KnapsackSolutionNew(current_items)
    /\ current_items' = {}
    /\ number_items_in_set' = 0
    /\ drawn_index' = -1
    /\ pc' = "knapsack"
    /\ UNCHANGED <<ksFrame, calls, call, children, twin_children>>

\* A KnapsackSolution exists.
HasSolution == solution # NoKnapsackSolution

\* solution.new_solution(rng) replaces the solution at hand.
KsNewSolution ==
    /\ KsReady
    /\ HasSolution
    /\ \E random_index \in Items :
          solution' = KnapsackNewSolution(solution, random_index)
    /\ call' = [name |-> "new_solution"]
    /\ calls' = calls + 1
    /\ UNCHANGED <<pc, ksFrame, children, twin_children, current_items, number_items_in_set, drawn_index>>

\* solution.mutate(mutation_rate, rng)
KsMutate ==
    /\ KsReady
    /\ HasSolution
    /\ \E mutation_rate \in KnapsackRates :
          \E indices \in {S \in ItemSets : Cardinality(S) = ExpectedNumberFlips(mutation_rate)} :
             solution' = KnapsackMutate(solution, indices)
    /\ call' = [name |-> "mutate"]
    /\ calls' = calls + 1
    /\ UNCHANGED <<pc, ksFrame, children, twin_children, current_items, number_items_in_set, drawn_index>>

\* solution.generate_children_with(other_parent, rng), in this run and in a
\* second run from the same state with the same draws: the iteration order
\* of the HashSets is each run's own.
KsGenerateChildrenWith ==
    /\ KsReady
    /\ HasSolution
    /\ \E other_items \in OtherParents(solution) :
          LET other_parent == KnapsackSolutionNew(other_items)
              union == solution.items \cup other_parent.items
          IN  \E perm \in Orderings(1 .. Cardinality(union)),
                 hash_order \in HashOrders(union), twin_order \in HashOrders(union) :
                 /\ children' = GenerateChildrenWith(solution, other_parent, hash_order, perm)
                 /\ twin_children' =
                       GenerateChildrenWith(solution, other_parent, twin_order, perm)
                 /\ call' = [name |-> "generate_children_with",
                             other_parent |-> other_parent]
    /\ calls' = calls + 1
    /\ pc' = "children"
    /\ UNCHANGED <<ksFrame, solution, current_items, number_items_in_set, drawn_index>>

\* The caller keeps one of the children as the solution at hand and drops
\* the Vec.
KsTakeChild ==
    /\ pc = "children"
    /\ \E i \in 1 .. Len(children) : solution' = children[i]
    /\ children' = <<>>
    /\ twin_children' = <<>>
    /\ pc' = "knapsack"
    /\ UNCHANGED <<ksFrame, calls, call, current_items, number_items_in_set, drawn_index>>

NextKnapsack ==
    \/ KsProblemNew \/ KsNew \/ KsNewRandom \/ KsNewRandomPass \/ KsNewRandomReturn
    \/ KsNewSolution \/ KsMutate \/ KsGenerateChildrenWith \/ KsTakeChild
SpecKnapsack == Init /\ [][NextKnapsack]_vars

\* The runs in which the draws of new_random are fair: no index that would
\* change the loop's state stays undrawn for ever, and the function returns
\* once its loop is left.
SpecKnapsackFair ==
    /\ SpecKnapsack
    /\ \A random_index \in Items : WF_vars(KsNewRandomDraw(random_index))
    /\ WF_vars(KsNewRandomReturn)

Next == NextConfig \/ NextSA \/ NextGA \/ NextPopulation \/ NextKnapsack
Spec == Init /\ [][Next]_vars

\* The two algorithms alone, and the Population with the algorithm that
\* uses it.
NextExecute == NextSA \/ NextGA
SpecExecute == Init /\ [][NextExecute]_vars
NextPopulationGA == NextPopulation \/ NextGA
SpecPopulationGA == Init /\ [][NextPopulationGA]_vars

\* ========================================================= the claims ====

\* The parameter contract of the GA constructor, read on the mathematical
\* integers.
GaParametersValid(a) ==
    /\ FLe(F(0), a.mutation_rate)
    /\ FLe(a.mutation_rate, F(Scale))
    /\ 2 * a.number_pairs_parents <= a.population_size

IsConfigurationError(r) == r.tag = "Err" /\ r.error = "ConfigurationError"
IsExecutionError(r) == r.tag = "Err" /\ r.error = "ExecutionError"

\* C1: GeneticAlgorithmConfig::new returns Ok exactly when
\* 0 <= mutation_rate <= 1 and 2*number_pairs_parents <= population_size, and
\* ConfigurationError otherwise; a returned config satisfies
\* 2*number_pairs_parents <= population_size and carries the parameters
\* unchanged.
C1_GaConfigContract ==
    config.kind = "ga" =>
        /\ (config.res.tag = "Ok") <=> GaParametersValid(config.args)
        /\ ~GaParametersValid(config.args) => IsConfigurationError(config.res)
        /\ config.res.tag = "Ok" =>
              /\ config.res.cfg = config.args
              /\ 2 * config.res.cfg.number_pairs_parents <= config.res.cfg.population_size

\* The same contract for the calls in which 2*number_pairs_parents fits usize:
\* there the constructor keeps it.
GaConfigContractWithoutOverflow ==
    (config.kind = "ga" /\ 2 * config.args.number_pairs_parents <= UsizeMax)
        => C1_GaConfigContract

\* The parameter contract of the SA constructor.
SaParametersValid(a) ==
    /\ FLe(F(0), a.minimal_temperature)
    /\ FLe(a.minimal_temperature, a.initial_temperature)
    /\ FLe(F(0), a.cooling_rate)
    /\ FLe(a.cooling_rate, F(Scale))

\* C2: SimulatedAnnealingConfig::new returns Ok exactly when
\* 0 <= minimal_temperature <= initial_temperature and 0 <= cooling_rate <= 1,
\* and ConfigurationError otherwise.
C2_SaConfigContract ==
    config.kind = "sa" =>
        /\ (config.res.tag = "Ok") <=> SaParametersValid(config.args)
        /\ ~SaParametersValid(config.args) => IsConfigurationError(config.res)

\* The same contract for the calls whose temperatures are numbers: there the
\* constructor keeps it.
SaConfigContractWithoutNaN ==
    (/\ config.kind = "sa"
     /\ ~IsNaN(config.args.initial_temperature)
     /\ ~IsNaN(config.args.minimal_temperature))
        => C2_SaConfigContract

\* The program is inside GeneticAlgorithm::execute.
InGaRun == pc \in {"ga_loop", "ga_cross", "ga_mutate", "ga_exit"}
GaEnded == config.kind = "ga" /\ pc = "done"

\* C3: generate_offspring returns Err(ExecutionError) whenever the population
\* holds fewer than 2*pairs elements, so execute on an initial population
\* smaller than 2*number_pairs_parents (number_generations >= 1) returns
\* Err(ExecutionError) instead of aborting.
C3_UndersizedPopulationIsAnError ==
    (/\ GaEnded
     /\ generation < Cfg.number_generations
     /\ Len(elements) < 2 * Cfg.number_pairs_parents)
        => IsExecutionError(result)

\* C4: the first Err of a capability call (new_solution, generate_children_with,
\* mutate) makes execute return Err(ExecutionError); nothing is retried, no
\* capability method is invoked after it and no Ok result is produced.
C4_FailureAbortsRun ==
    /\ [](failures >= 1 => (failures = 1 /\ pc = "done" /\ IsExecutionError(result)))
    /\ [][failures >= 1 => calls' = calls]_vars

\* A capability call failed and the run ended on it, after earlier calls
\* had succeeded.
C4_Witness == failures = 1 /\ calls >= 2 /\ pc = "done"

\* A step that completes one pass of the SA loop.
SaPassCompleted == pc = "sa_loop" /\ iteration' = iteration + 1

\* delta_objective of the pass just completed, against the solution that
\* was current before it.
DeltaOfPass == FSub(objective(new_solution'), objective(current_solution))

\* C5: in every SA iteration under a valid config a neighbor with
\* delta <= 0 is accepted whatever the draw and the temperature (temperature
\* 0 and delta = 0 included); a neighbor with delta > 0 is accepted only when
\* exp(-delta/temperature) exceeds the draw.
C5_MetropolisAcceptance ==
    [][(SaPassCompleted /\ SaParametersValid(Cfg)) =>
          /\ FLe(DeltaOfPass, F(0)) => current_solution' = new_solution'
          /\ (FGt(DeltaOfPass, F(0)) /\ current_solution' # current_solution) =>
                ExpExceedsDraw(FDiv(FNeg(DeltaOfPass), temperature), draw')
      ]_vars

\* The same rule away from 0/0: with a positive temperature, or a strict
\* improvement, the neighbor with delta <= 0 is always accepted.
MetropolisAcceptanceAwayFromZero ==
    [][(/\ SaPassCompleted
        /\ SaParametersValid(Cfg)
        /\ FGt(temperature, F(0)) \/ FLt(DeltaOfPass, F(0))) =>
          /\ FLe(DeltaOfPass, F(0)) => current_solution' = new_solution'
          /\ (FGt(DeltaOfPass, F(0)) /\ current_solution' # current_solution) =>
                ExpExceedsDraw(FDiv(FNeg(DeltaOfPass), temperature), draw')
      ]_vars

\* C6: in a run with a config accepted by SimulatedAnnealingConfig::new the
\* temperature after each iteration equals
\* max(temperature * cooling_rate, minimal_temperature), is at most the
\* temperature before the iteration and is never below minimal_temperature.
C6_CoolingSchedule ==
    [][SaPassCompleted =>
          /\ temperature' = FMax(FMul(temperature, Cfg.cooling_rate),
                                 Cfg.minimal_temperature)
          /\ FLe(temperature', temperature)
          /\ FGe(temperature', Cfg.minimal_temperature)
      ]_vars

\* The same schedule for the accepted configs that meet the parameter
\* contract: there it holds.
CoolingScheduleOfValidConfig ==
    [][(SaPassCompleted /\ SaParametersValid(Cfg)) =>
          /\ temperature' = FMax(FMul(temperature, Cfg.cooling_rate),
                                 Cfg.minimal_temperature)
          /\ FLe(temperature', temperature)
          /\ FGe(temperature', Cfg.minimal_temperature)
      ]_vars

InSaRun == pc \in {"sa_loop", "sa_exit"}
SaReturnedOk == config.kind = "sa" /\ pc = "done" /\ result.tag = "Ok"

\* The returned solution is at least as good as the initial solution and as
\* every neighbor that was accepted.
ReturnedIsBestSeen ==
    SaReturnedOk =>
        \A i \in 1 .. Len(seen) : FLe(objective(result.solution), seen[i])

\* The objective of best_solution does not increase in a step of the run.
BestNeverIncreases ==
    InSaRun => FLe(objective(best_solution'), objective(best_solution))

\* The run started from a solution whose objective is a number.
InitialIsNumber == Len(seen) >= 1 /\ ~IsNaN(seen[1])

\* C7 as stated: across an SA run the objective of best_solution never
\* increases, and the returned solution's objective is at most that of the
\* initial solution and of every accepted neighbor.
C7_BestIsMonotone ==
    /\ []ReturnedIsBestSeen
    /\ [][BestNeverIncreases]_vars

\* C7 (amended): the same, for a run whose initial solution has an objective
\* that is a number (not NaN).  A NaN neighbor is never accepted, so the
\* accepted objectives are then numbers too.
C7_BestIsMonotoneFromNumber ==
    /\ [](InitialIsNumber => ReturnedIsBestSeen)
    /\ [][InitialIsNumber => BestNeverIncreases]_vars

\* A run returned after its current solution had left the best one behind:
\* a worse neighbor was accepted after a better one.
C7_Witness ==
    /\ SaReturnedOk
    /\ Len(seen) >= 3
    /\ FLt(objective(result.solution), seen[1])
    /\ FLt(objective(result.solution), seen[Len(seen)])

\* ------------------------------------------------------------ early stopping
\* A run of either algorithm returned Ok under a configured stop threshold.
ReturnedOkWithThreshold ==
    /\ pc = "done"
    /\ config.kind \in {"sa", "ga"}
    /\ result.tag = "Ok"
    /\ Cfg.stop_threshold.some

\* The budget of the run and the count it reported.
Budget == IF config.kind = "sa" THEN Cfg.max_iterations ELSE Cfg.number_generations
ReportedCount ==
    IF config.kind = "sa" THEN result.number_iterations ELSE result.number_generations

\* C8 as stated: once the best objective reaches the threshold t (is at most
\* t) after a pass before the last one, the run returns with a count strictly
\* smaller than its budget.
C8_StopsOnceThresholdReached ==
    ReturnedOkWithThreshold =>
        \A i \in 1 .. Len(best_hist) :
            (i < Budget /\ FLe(best_hist[i], Cfg.stop_threshold.val))
                => ReportedCount < Budget

\* C8 (amended): once the best objective is strictly below the threshold t
\* after pass i, the run returns with a count of at most i, so with a count
\* strictly smaller than its budget when i is before the last pass.
C8_StopsOnceBelowThreshold ==
    ReturnedOkWithThreshold =>
        \A i \in 1 .. Len(best_hist) :
            FLt(best_hist[i], Cfg.stop_threshold.val)
                => (ReportedCount <= i /\ (i < Budget => ReportedCount < Budget))

\* A run stopped early: its best objective fell below the threshold in a
\* pass before the last one and no further pass ran.
C8_Witness ==
    /\ ReturnedOkWithThreshold
    /\ Len(best_hist) = 1
    /\ FLt(best_hist[1], Cfg.stop_threshold.val)
    /\ ReportedCount = 1
    /\ Budget > 1

\* The generations after which the best individual was below the threshold.
GenerationsBelow ==
    {g \in 1 .. Len(best_hist) : FLt(best_hist[g], Cfg.stop_threshold.val)}

\* C9: when GeneticAlgorithm::execute returns Ok with stop_threshold = Some(t),
\* number_generations is the smallest g >= 1 whose completed generation left
\* the best individual below t, or config.number_generations if there is
\* none; the threshold is not tested before generation 1 has completed and
\* no generation runs after the one that met it.
C9_ReportedGenerations ==
    (ReturnedOkWithThreshold /\ config.kind = "ga") =>
        /\ Len(best_hist) = result.number_generations
        /\ GenerationsBelow # {}
              => /\ result.number_generations \in GenerationsBelow
                 /\ \A g \in GenerationsBelow : result.number_generations <= g
        /\ GenerationsBelow = {}
              => result.number_generations = Cfg.number_generations

\* A GA run whose initial population was already below the threshold still
\* completed generation 1 and stopped there, before its budget.
C9_Witness ==
    /\ ReturnedOkWithThreshold
    /\ config.kind = "ga"
    /\ result.number_generations = 1
    /\ Cfg.number_generations > 1
    /\ Cfg.number_pairs_parents = 0
    /\ FLt(objective(result.solution), Cfg.stop_threshold.val)

\* C10: after every completed generation the population holds at most
\* config.population_size individuals, whatever the size of the initial
\* population and the number of offspring.
C10_PopulationBounded ==
    (config.kind = "ga" /\ (InGaRun \/ pc = "done") /\ generation >= 1)
        => Len(elements) <= Cfg.population_size

\* A generation that merged a full population with two offspring ended with
\* exactly population_size individuals.
C10_Witness ==
    /\ pc = "ga_loop"
    /\ generation >= 1
    /\ Len(offsprings) = 2
    /\ Cfg.population_size = 2
    /\ Len(elements) = 2

\* ----------------------------------------------------------------- knapsack
\* C11: determinism.  Two runs from equal states whose randomness sources
\* yield the same draws go through the same states and return the same
\* result: nothing but the draws (not the iteration order of the item
\* HashSet used by crossover) influences what a call returns.
C11_Deterministic == twin_children = children

\* The stored value and weight of s are the sums over its items, and its
\* objective is the negated value sum when the weight sum is within
\* max_weight, and 0 otherwise.
MatchesItems(s) ==
    LET value_sum == SumOver(problem.all_values, s.items)
        weight_sum == SumOver(problem.all_weights, s.items)
    IN  /\ s.value = value_sum
        /\ s.weight = weight_sum
        /\ KnapsackObjective(s) =
              IF FLe(weight_sum, problem.max_weight) THEN FNeg(value_sum) ELSE F(0)

\* C12: every KnapsackSolution reachable by new, new_random, new_solution,
\* generate_children_with and mutate has value and weight fields equal to
\* the sums over its current items, and an objective that is the negated
\* value sum when the weight sum is <= max_weight and 0 otherwise.
C12_ObjectiveMatchesItems ==
    /\ HasSolution => MatchesItems(solution)
    /\ \A i \in 1 .. Len(children) : MatchesItems(children[i])

\* The same for every call but mutate: a call other than mutate returns
\* solutions whose fields match their items when the receiver's did.
ObjectiveMatchesItemsUnlessMutated ==
    [][(/\ pc' \in {"knapsack", "children"}
        /\ HasSolution => MatchesItems(solution)
        /\ ~(call'.name = "mutate" /\ calls' = calls + 1))
          => /\ HasSolution' => MatchesItems(solution')
             /\ \A i \in 1 .. Len(children') : MatchesItems(children'[i])
      ]_vars

\* --------------------------------------------------------------- Population
\* The objectives of s are mutually comparable (none is NaN).
Comparable(s) ==
    \A i, j \in 1 .. Len(s) :
        FLe(objective(s[i]), objective(s[j])) \/ FLe(objective(s[j]), objective(s[i]))

\* s and t hold the same elements, each as many times.
SameElements(s, t) ==
    \A x \in Solutions :
        Cardinality({i \in 1 .. Len(s) : s[i] = x}) = Cardinality({i \in 1 .. Len(t) : t[i] = x})

\* C13: for a non-empty population whose objectives are mutually comparable,
\* sort() followed by best_individual() returns an element whose objective
\* is the minimum over all elements present; sort() neither adds nor
\* removes elements.
C13_SortThenBestIsMinimum ==
    (pc = "population" /\ call.name = "sort") =>
        /\ SameElements(elements, call.before)
        /\ (call.before # <<>> /\ Comparable(call.before)) =>
              LET best == best_individual(elements)
              IN  /\ best.tag = "Ok"
                  /\ \E i \in 1 .. Len(call.before) : call.before[i] = best.val
                  /\ \A i \in 1 .. Len(call.before) :
                        FLe(objective(best.val), objective(call.before[i]))

\* sort() moved the minimum of a full, comparable population from its last
\* position to the first.
C13_Witness ==
    /\ pc = "population"
    /\ call.name = "sort"
    /\ Len(call.before) = MaxInit + 1
    /\ Comparable(call.before)
    /\ \A i \in 1 .. MaxInit :
          FLt(objective(call.before[Len(call.before)]), objective(call.before[i]))
    /\ elements[1] = call.before[Len(call.before)]

\* C14: every GeneticAlgorithmConfig returned by GeneticAlgorithmConfig::new
\* has number_generations > 0 and population_size > 0.
C14_ConfigSizesPositive ==
    (config.kind = "ga" /\ config.res.tag = "Ok") =>
        /\ config.res.cfg.number_generations > 0
        /\ config.res.cfg.population_size > 0

\* What the constructor does establish: a returned config holds the
\* arguments as given, with a mutation rate within [0, 1].
ConfigHoldsArguments ==
    (config.kind = "ga" /\ config.res.tag = "Ok") =>
        /\ config.res.cfg = config.args
        /\ InUnitRange(config.res.cfg.mutation_rate)

\* C15: best_individual returns Err(ExecutionError) exactly when the
\* population is empty and otherwise a copy of the element at position 0,
\* and leaves the population unchanged; so GeneticAlgorithm::execute on an
\* empty initial population with number_pairs_parents = 0 returns
\* Err(ExecutionError).
C15_BestIndividualContract ==
    /\ (pc = "population" /\ call.name = "best_individual") =>
          /\ elements = call.before
          /\ IsExecutionError(result) <=> call.before = <<>>
          /\ call.before # <<>> => result = CapOk(call.before[1])
    /\ (GaEnded /\ Cfg.number_pairs_parents = 0 /\ pool = {}) =>
          IsExecutionError(result)

\* A GA run without crossover on an empty initial population went through
\* all its generations and ended on the error of best_individual.
C15_Witness ==
    /\ GaEnded
    /\ Cfg.number_pairs_parents = 0
    /\ ~Cfg.stop_threshold.some
    /\ pool = {}
    /\ generation = MaxGen
    /\ result = ExecutionError("empty population")

\* ------------------------------------------------------------ GA generations
\* s is in ascending order of objective.
IsAscending(s) == \A i, j \in 1 .. Len(s) : i < j => ~IsLess(s[j], s[i])

\* How often x occurs in s.
Occurrences(s, x) == Cardinality({i \in 1 .. Len(s) : s[i] = x})

\* kept holds the first size elements of an ascending ordering of merged.
IsLeastOf(kept, merged, size) ==
    /\ Len(kept) = IF Len(merged) < size THEN Len(merged) ELSE size
    /\ IsAscending(kept)
    /\ \A x \in GaSolutions : Occurrences(kept, x) <= Occurrences(merged, x)
    /\ \A x \in GaSolutions :
          Occurrences(kept, x) < Occurrences(merged, x) =>
              \A i \in 1 .. Len(kept) : ~IsLess(x, kept[i])

\* A step that ends a generation, and a step of its mutation loop.
GenerationCompleted == pc = "ga_mutate" /\ generation' = generation + 1
MutationPass == pc = "ga_mutate" /\ pc' = "ga_mutate"

\* Each pass of the mutation loop calls mutate with config.mutation_rate on
\* the next offspring and on nothing else, and the loop ends after the last
\* offspring; the population is not touched.
MutatesEachOffspringOnce ==
    /\ MutationPass =>
          /\ idx' = idx + 1
          /\ call' = [name |-> "mutate", mutation_rate |-> Cfg.mutation_rate]
          /\ Len(offsprings') = Len(offsprings)
          /\ \A j \in 1 .. Len(offsprings) : j # idx' => offsprings'[j] = offsprings[j]
          /\ elements' = elements
    /\ GenerationCompleted => idx = Len(offsprings)

\* C16 as stated: after each generation the population is the first
\* population_size elements of the ascending ordering of the prior
\* population together with the mutated offspring; the population is
\* sorted ascending at the start of every generation; mutate is applied
\* once to each offspring with config.mutation_rate and never to a member
\* of the prior population.
C16_ElitistReplacement ==
    /\ [](pc = "ga_loop" => IsAscending(elements))
    /\ [][GenerationCompleted =>
             IsLeastOf(elements', elements \o offsprings, Cfg.population_size)]_vars
    /\ [][MutatesEachOffspringOnce]_vars

\* C16 (amended): the same for populations and offspring whose objectives
\* are mutually comparable (no NaN objective).
C16_ElitistReplacementOfComparable ==
    /\ []((pc = "ga_loop" /\ Comparable(elements)) => IsAscending(elements))
    /\ [][(GenerationCompleted /\ Comparable(elements \o offsprings)) =>
             IsLeastOf(elements', elements \o offsprings, Cfg.population_size)]_vars
    /\ [][MutatesEachOffspringOnce]_vars

\* A generation ended in which an offspring took the first place, a member
\* of the prior population survived and an offspring was dropped.
C16_Witness ==
    /\ pc = "ga_loop"
    /\ generation >= 1
    /\ Len(offsprings) = 2
    /\ Len(elements) = 2
    /\ Comparable(elements \o offsprings)
    /\ \E i \in 1 .. 2 : offsprings[i] = elements[1]
    /\ \A i \in 1 .. 2 : offsprings[i] # elements[2]
    /\ \E i \in 1 .. 2 : \A j \in 1 .. 2 : offsprings[i] # elements[j]

\* ------------------------------------------------------------ SA iterations
\* The iterations after which the best objective was below the threshold.
IterationsBelow ==
    {i \in 1 .. Len(best_hist) :
        Cfg.stop_threshold.some /\ FLt(best_hist[i], Cfg.stop_threshold.val)}

\* C17: when SimulatedAnnealingAlgorithm::execute returns Ok,
\* number_iterations <= max_iterations; it is the smallest i >= 1 such that
\* the best objective after iteration i is below the threshold, and
\* max_iterations if there is no such i or no threshold; with
\* max_iterations = 0 the initial solution is returned with
\* number_iterations = 0 and new_solution is never called.
C17_ReportedIterations ==
    SaReturnedOk =>
        /\ result.number_iterations <= Cfg.max_iterations
        /\ Len(best_hist) = result.number_iterations
        /\ IterationsBelow # {} =>
              /\ result.number_iterations \in IterationsBelow
              /\ \A i \in IterationsBelow : result.number_iterations <= i
        /\ IterationsBelow = {} => result.number_iterations = Cfg.max_iterations
        /\ Cfg.max_iterations = 0 =>
              /\ result.number_iterations = 0
              /\ calls = 0
              /\ result.solution = current_solution
              /\ seen = <<objective(result.solution)>>

\* A run under a threshold used its whole budget: the best objective fell
\* below the threshold in the last iteration only.
C17_Witness ==
    /\ SaReturnedOk
    /\ Cfg.stop_threshold.some
    /\ Cfg.max_iterations = MaxIter
    /\ result.number_iterations = MaxIter
    /\ IterationsBelow = {MaxIter}

\* The neighbor of the pass fails the acceptance test of the draw.
NeighborRejected ==
    ~ExpExceedsDraw(FDiv(FNeg(DeltaOfPass), temperature), draw')

\* A rejected neighbor changes neither solution, and best_solution changes
\* only to an accepted neighbor of strictly lower objective.
RejectionChangesNothing ==
    SaPassCompleted =>
        /\ NeighborRejected =>
              (current_solution' = current_solution /\ best_solution' = best_solution)
        /\ best_solution' # best_solution =>
              /\ ~NeighborRejected
              /\ best_solution' = new_solution'
              /\ FLt(objective(new_solution'), objective(best_solution))

\* The best solution is at least as good as the current one.
BestIsAtMostCurrent ==
    (InSaRun \/ SaReturnedOk) =>
        FLe(objective(best_solution), objective(current_solution))

\* C18 as stated: a rejected neighbor leaves current_solution and
\* best_solution unchanged; best_solution changes only in an iteration
\* whose neighbor is accepted with an objective strictly lower than the
\* best's; in every state of the run
\* objective(best_solution) <= objective(current_solution).
C18_RejectionFrame ==
    /\ [][RejectionChangesNothing]_vars
    /\ []BestIsAtMostCurrent

\* C18 (amended): the same, the last part for runs whose initial solution
\* has an objective that is a number (not NaN).
C18_RejectionFrameFromNumber ==
    /\ [][RejectionChangesNothing]_vars
    /\ [](InitialIsNumber => BestIsAtMostCurrent)

\* A neighbor was rejected in a run whose current solution had moved away
\* from the best one.
C18_Witness ==
    /\ pc = "sa_loop"
    /\ iteration = MaxIter
    /\ new_solution # current_solution
    /\ FLt(objective(best_solution), objective(current_solution))
    /\ FLt(objective(current_solution), objective(new_solution))

\* ---------------------------------------------------------------- crossover
\* A step of generate_offspring that calls generate_children_with, and the
\* step in which generate_offspring returns Ok.
CrossoverCalled == pc = "ga_cross" /\ calls' = calls + 1
OffspringReturned == pc = "ga_cross" /\ pc' = "ga_mutate"

\* The calls of generate_offspring pair the elements at positions 2i and
\* 2i+1 for increasing i; the offspring returned are the per-pair results in
\* that order, one call per pair; the population is left as it was.
PairsInOrder ==
    /\ CrossoverCalled =>
          /\ call'.parents = <<2 * idx, 2 * idx + 1>>
          /\ elements' = elements
          /\ pc' = "ga_cross" =>
                /\ idx' = idx + 1
                /\ Len(offsprings') >= Len(offsprings)
                /\ SubSeq(offsprings', 1, Len(offsprings)) = offsprings
    /\ OffspringReturned =>
          /\ idx = Cfg.number_pairs_parents
          /\ offsprings' = offsprings
          /\ elements' = elements

\* C19: in each generation generate_offspring invokes crossover exactly
\* number_pairs_parents times, which is at most population_size/2, the i-th
\* call pairing the elements at positions 2i and 2i+1 in increasing i; the
\* offspring are the concatenation of the per-pair results; the
\* population's elements and their order are unchanged.
C19_PairedCrossover ==
    /\ [][CrossoverCalled =>
             Cfg.number_pairs_parents <= Cfg.population_size \div 2]_vars
    /\ [][PairsInOrder]_vars

\* The same without the bound on the number of pairs: it holds.
PairedCrossoverInOrder == [][PairsInOrder]_vars

\* ------------------------------------------------------------ GA best so far
GaReturnedOk == GaEnded /\ result.tag = "Ok"

\* The best objective of the population does not increase over a
\* generation, for a population_size >= 1 and objectives that are mutually
\* comparable (no NaN among the initial individuals and the offspring).
GaBestNeverIncreases ==
    (/\ GenerationCompleted
     /\ Cfg.population_size >= 1
     /\ elements # <<>>
     /\ NaN \notin pool')
        => /\ elements' # <<>>
           /\ FLe(objective(elements'[1]), objective(elements[1]))

\* The returned solution is at least as good as every initial individual and
\* every mutated offspring of the run.
GaReturnedIsLeast ==
    (GaReturnedOk /\ Cfg.population_size >= 1 /\ NaN \notin pool) =>
        /\ pool # {}
        /\ \A o \in pool : FLe(objective(result.solution), o)
        /\ \A g \in 1 .. Len(best_hist) : FLe(objective(result.solution), best_hist[g])
        /\ \A g \in 2 .. Len(best_hist) : FLe(best_hist[g], best_hist[g - 1])

\* C20: with population_size >= 1 and mutually comparable objectives, the
\* best (position 0) objective of the population never increases from one
\* generation to the next, and the returned solution's objective is at most
\* that of every individual of the initial population and of every mutated
\* offspring produced during the run.
C20_GaBestIsMonotone ==
    /\ [][GaBestNeverIncreases]_vars
    /\ []GaReturnedIsLeast

\* A run returned after its best objective had improved in its last
\* generation, on an offspring.
C20_Witness ==
    /\ GaReturnedOk
    /\ NaN \notin pool
    /\ Cfg.population_size = MaxPop
    /\ result.number_generations = MaxGen
    /\ FLt(best_hist[MaxGen], best_hist[MaxGen - 1])
    /\ \E i \in 1 .. Len(offsprings) : offsprings[i] = result.solution

\* --------------------------------------------------------------- termination
\* The steps of the two execute functions once they have started.
ExecuteStep ==
    \/ SaIteration \/ SaReturn
    \/ GaGeneration \/ GaCrossover \/ GaCollect \/ GaMutate \/ GaSurvive \/ GaReturn

\* The loop counter of the run at hand, and whether execute has ended.
Counter == IF config.kind = "sa" THEN iteration ELSE generation
ExecuteEnded == config.kind \in {"sa", "ga"} /\ pc = "done"

\* A step of a run moves the loop counter by one, when it completes a pass
\* of the loop, or not at all; the counter never exceeds the budget.
CounterStepsByOne ==
    (InSaRun \/ InGaRun) =>
        /\ Counter' \in {Counter, Counter + 1}
        /\ Counter' = Counter + 1 <=> Len(best_hist') = Len(best_hist) + 1
        /\ Counter' <= Budget

\* execute left its loop on the counter bound or on the stop threshold and
\* returned Ok with the count of the passes made.
LeftOnBoundOrThreshold ==
    /\ result.tag = "Ok"
    /\ ReportedCount = Counter
    /\ Counter = Len(best_hist)
    /\ Counter <= Budget
    /\ \/ Counter = Budget
       \/ /\ Counter >= 1
          /\ Cfg.stop_threshold.some
          /\ FLt(best_hist[Counter], Cfg.stop_threshold.val)

\* C21: provided every capability call returns, both execute functions
\* always return; the loop counter increases by exactly one per loop pass,
\* so at most max_iterations (number_generations) passes are made, and the
\* only ways out are the counter bound, the stop threshold, or an error
\* (Err returned).
C21_ExecuteReturns ==
    /\ [][CounterStepsByOne]_vars
    /\ [](ExecuteEnded => (LeftOnBoundOrThreshold \/ IsExecutionError(result)))

\* What holds of every run: the counter steps by one within the budget and
\* execute ends on the bound, on the threshold, on an Err, or on a panic.
ExecuteEndsOrPanics ==
    /\ [][CounterStepsByOne]_vars
    /\ [](ExecuteEnded =>
            \/ LeftOnBoundOrThreshold
            \/ IsExecutionError(result)
            \/ result.tag = "Panic")

\* How far a run has come: the passes made, then the position in the pass.
PassSpan == 4 + UsizeMax + UsizeMax * MaxChildren
Progress ==
    CASE pc = "sa_loop" -> iteration * PassSpan
      [] pc = "ga_loop" -> generation * PassSpan
      [] pc = "ga_cross" -> generation * PassSpan + 1 + idx
      [] pc = "ga_mutate" -> generation * PassSpan + 2 + UsizeMax + idx
      [] pc \in {"sa_exit", "ga_exit"} -> (Budget + 1) * PassSpan
      [] OTHER -> (Budget + 2) * PassSpan

\* No run goes on for ever: every step of a run brings it closer to its
\* end, which is a bounded number of steps away.
ExecuteTerminates ==
    /\ [][(InSaRun \/ InGaRun) => Progress' > Progress]_vars
    /\ []((InSaRun \/ InGaRun \/ ExecuteEnded) =>
            Progress <= (MaxGen + MaxIter + 2) * PassSpan)

\* ---------------------------------------------------------- size arithmetic
\* C22: the GA size arithmetic is free of wrap-around: for every usize
\* number_pairs_parents and population_size, GeneticAlgorithmConfig::new
\* never returns Ok for a config whose mathematical 2*number_pairs_parents
\* exceeds population_size, and the capacity computed by execute does not
\* overflow for any config that new accepts.
C22_NoWrapAround ==
    (config.kind = "ga" /\ config.res.tag = "Ok") =>
        /\ 2 * Cfg.number_pairs_parents <= Cfg.population_size
        /\ (InGaRun \/ GaEnded) => ~CapacityOverflows(Cfg)

\* ------------------------------------------------------ knapsack crossover
\* The step in which generate_children_with returns.
ChildrenReturned == pc = "knapsack" /\ pc' = "children"

\* C23: generate_children_with always returns exactly two children whose
\* item sets are disjoint, whose union is the union of the two parents'
\* item sets, and whose sizes are floor(n/2) and ceil(n/2) for n the size of
\* that union; both parents are left unchanged and each child's value and
\* weight are the sums over its own items.
C23_CrossoverSplitsUnion ==
    [][ChildrenReturned =>
          LET other_parent == call'.other_parent
              union == solution.items \cup other_parent.items
              n == Cardinality(union)
          IN  /\ Len(children') = 2
              /\ children'[1].items \cap children'[2].items = {}
              /\ children'[1].items \cup children'[2].items = union
              /\ Cardinality(children'[1].items) = n \div 2
              /\ Cardinality(children'[2].items) = n - n \div 2
              /\ solution' = solution
              /\ other_parent = KnapsackSolutionNew(other_parent.items)
              /\ \A i \in 1 .. 2 :
                    /\ children'[i].value = SumOver(problem.all_values, children'[i].items)
                    /\ children'[i].weight = SumOver(problem.all_weights, children'[i].items)
      ]_vars

\* Two parents that share an item and hold an odd number of distinct items
\* between them were crossed: the children hold one and two items.
C23_Witness ==
    /\ pc = "children"
    /\ call.name = "generate_children_with"
    /\ solution.items \cap call.other_parent.items # {}
    /\ solution.items # call.other_parent.items
    /\ Cardinality(solution.items \cup call.other_parent.items) = 3
    /\ Cardinality(children[1].items) = 1
    /\ Cardinality(children[2].items) = 2

\* --------------------------------------------------------------- new_random
\* new_random is in its loop, and the step in which it returns.
InNewRandom == pc = "new_random"
NewRandomReturned == pc = "new_random" /\ pc' = "knapsack"

\* The solution new_random returns holds exactly number_items_in_set
\* distinct item indices, each below problem.number_items.
ReturnsRequestedNumber ==
    NewRandomReturned =>
        /\ Cardinality(solution'.items) = number_items_in_set
        /\ \A i \in solution'.items : i \in 0 .. problem.number_items - 1

\* C24: under fair random draws new_random eventually returns for every
\* requested number_items_in_set, Some(k) with k greater than number_items
\* included, and the solution it returns holds exactly that many distinct
\* item indices, each below problem.number_items.
C24_NewRandomReturns ==
    /\ InNewRandom ~> pc = "knapsack"
    /\ [][ReturnsRequestedNumber]_vars

\* The same for the requests that can be met, of at most number_items
\* items: there new_random returns.
NewRandomReturnsWithinRange ==
    /\ (InNewRandom /\ number_items_in_set <= problem.number_items) ~> pc = "knapsack"
    /\ [][ReturnsRequestedNumber]_vars

====
